---- MODULE Spec2Model ----
(***************************************************************************)
(* Order / booking transactional workflow of sqaleshop-server.             *)
(*                                                                         *)
(* The persistent store (MongoDB through Mongoose) is modelled by the      *)
(* collections `products`, `customers`, `orders` and `bookings`.  Request  *)
(* handlers are modelled as actions.  The specifications are:              *)
(*   Spec      requests handled one after another, order creation and      *)
(*             cancellation with the full request input space;             *)
(*   SpecLife  requests handled one after another on one order or one      *)
(*             booking: creation followed by status, payment, fulfillment, *)
(*             cancel and refund requests;                                 *)
(*   SpecRace  concurrent creations, one step per awaited store call;      *)
(*   SpecCommit    concurrent order creations whose commits may fail;      *)
(*   SpecResolve   the same with a customer of another tenant in store;    *)
(*   SpecCustomer  order and booking creations for returning customers;    *)
(*   SpecRefund    concurrent refunds of one order;                        *)
(*   SpecNumber    order number generation and the unique index;           *)
(*   SpecInvoice   the public summary and invoice endpoints.               *)
(*                                                                         *)
(* Numbers are integers (currency minor units).  JavaScript `a || b` on    *)
(* numbers is JsOr (0 is falsy); an absent string is the empty sequence.   *)
(***************************************************************************)
EXTENDS Integers, Sequences, FiniteSets, TLC

VARIABLES products, customers, orders, bookings, resp,
          pc, txn, locals

vars == <<products, customers, orders, bookings, resp, pc, txn, locals>>

dbvars == <<products, customers, orders, bookings>>
racevars == <<pc, txn, locals>>

(***************************************************************************)
(* Bounds                                                                  *)
(***************************************************************************)
MaxOrders == 1
MaxTimeline == 6

(***************************************************************************)
(* JavaScript helpers                                                      *)
(***************************************************************************)
JsOr(a, b) == IF a # 0 THEN a ELSE b

Abs(x) == IF x < 0 THEN -x ELSE x

Max(a, b) == IF a >= b THEN a ELSE b

Includes(list, x) == \E i \in 1..Len(list) : list[i] = x

RECURSIVE SumSeq(_)
SumSeq(s) == IF s = <<>> THEN 0 ELSE Head(s) + SumSeq(Tail(s))

\* String.prototype.trim on a string given as a sequence of characters
RECURSIVE TrimLeft(_)
TrimLeft(s) == IF s # <<>> /\ Head(s) = " " THEN TrimLeft(Tail(s)) ELSE s

RECURSIVE TrimRight(_)
TrimRight(s) ==
  IF s # <<>> /\ s[Len(s)] = " " THEN TrimRight(SubSeq(s, 1, Len(s) - 1)) ELSE s

Trim(s) == TrimRight(TrimLeft(s))

\* email.toLowerCase().trim() on the e-mail inputs of the model
NormalizeEmail(e) ==
  CASE e = "A@X " -> "a@x"
    [] e = "a@x"  -> "a@x"
    [] e = "b@x"  -> "b@x"
    [] OTHER      -> e

(***************************************************************************)
(* Catalog and tenants                                                     *)
(***************************************************************************)
NoVariant == "none"
NoStore == "nostore"

\* store documents: owner is the tenant (business) id
Stores ==
  [s1 |-> [owner |-> "b1", bookingEnabled |-> TRUE],
   s2 |-> [owner |-> "b2", bookingEnabled |-> FALSE]]

\* booking slots
BookingSlots == [sl1 |-> [storeId |-> "s1", status |-> "active", price |-> 4]]

\* The paths productSchema declares (of those the handlers touch).  The
\* schema has no product-level `inventory` and no `price`: stock and price
\* live on the embedded variants, the product carries basePrice.
ProductSchemaPaths == {"basePrice", "variants"}

InitProducts ==
  [p1 |-> [basePrice |-> 3,
           variants |-> [v1 |-> [price |-> 2,
                                 inventory |-> 1,
                                 sku |-> "sku1"]]],
   p2 |-> [basePrice |-> 0,
           variants |-> [v \in {} |-> 0]]]

\* strings the requests carry for name / phone / address
S0 == <<>>
Sa == <<"a">>
Sab == <<"a", "b">>
Spad == <<" ", "a", " ">>


(***************************************************************************)
(* createOrder request inputs                                              *)
(***************************************************************************)
\* strings that are valid ObjectIds; any other variantId is tried as a SKU
ObjectIds == {"v1", "v9"}

LowerSku(x) == IF x = "SKU1" THEN "sku1" ELSE x

Item(p, v, q, price) ==
  [productId |-> p, variantId |-> v, variantSku |-> NoVariant,
   quantity |-> q, price |-> price]

ItemV1 == Item("p1", "v1", 1, 0)

ItemInputs ==
  { Item("p1", "v1", q, price) : q \in {1, 2}, price \in {0, 5} }
  \cup { Item("p1", "SKU1", 1, 0), Item("p1", "v9", 1, 0),
         Item("p2", NoVariant, 1, 0), Item("px", NoVariant, 1, 0),
         [ItemV1 EXCEPT !.variantId = NoVariant, !.variantSku = "SKU1"] }

ItemLists ==
  {<<>>} \cup { <<i>> : i \in ItemInputs }
  \cup { <<ItemV1, j>> : j \in { Item("p1", "v1", 2, 0),
                                 Item("p2", NoVariant, 1, 0),
                                 Item("px", NoVariant, 1, 0) } }

CustomerInput(email, name, phone, address) ==
  [email |-> email, name |-> name, phone |-> phone, address |-> address]

BaseCustomer == CustomerInput("a@x", Sa, Sa, S0)

CustomerInputs ==
  { CustomerInput(e, n, Sa, S0) : e \in {"a@x", "A@X ", "b@x"}, n \in {Sa, Sab} }
  \cup { CustomerInput("", Sa, Sa, S0), CustomerInput("a@x", S0, Sa, S0),
         CustomerInput("a@x", Sa, S0, S0) }

\* the request's payment object: the fields a client may put there
NoFields == [x \in {} |-> 0]

PaymentInputs ==
  { NoFields, [amount |-> 1], [refundedAmount |-> 1], [status |-> "completed"] }

OrderRequest(c, items, fee, disc, sub, tot, pay, store) ==
  [customer |-> c, items |-> items, fee |-> fee, discount |-> disc,
   subtotal |-> sub, total |-> tot, payment |-> pay, store |-> store]

\* client-submitted <<subtotal, total>>: absent, within 1 of some computed
\* value, far from every computed value
ClientTotals == { <<0, 0>>, <<3, 3>>, <<50, 50>> }

\* requests varying the items, requests varying the priced part, requests
\* varying the customer part, requests varying the payment object
OrderRequests ==
  { OrderRequest(BaseCustomer, items, 0, 0, 0, 0, NoFields, "s1") :
      items \in ItemLists }
  \cup { OrderRequest(BaseCustomer, <<item>>, fee, disc, ct[1], ct[2], NoFields, "s1") :
           item \in {ItemV1, Item("p1", "v1", 1, 5)},
           fee \in {0, 1}, disc \in {0, 2}, ct \in ClientTotals }
  \cup { OrderRequest(c, <<ItemV1>>, 0, disc, 0, 0, NoFields, "s1") :
           c \in CustomerInputs, disc \in {0, 2} }
  \cup { OrderRequest(BaseCustomer, <<ItemV1>>, 0, 0, 0, 0, pay, store) :
           pay \in PaymentInputs, store \in {"s1", NoStore} }

\* the requests that create the order whose lifecycle SpecLife follows
LifeRequests ==
  { OrderRequest(BaseCustomer, <<ItemV1>>, 1, 0, 0, 0, pay, "s1") :
      pay \in PaymentInputs }
  \cup { OrderRequest(BaseCustomer, <<Item("p1", "v1", 2, 0), Item("p1", "v9", 1, 0)>>,
                      1, disc, 50, 50, [status |-> "completed"], "s1") :
           disc \in {0, 2} }

(***************************************************************************)
(* Order creation: the algorithm shared by the transactional operation     *)
(* (createOrder) and createOrderWithoutTransaction                         *)
(***************************************************************************)
ErrCode(err) ==
  CASE err = "ok" -> 201
    [] err = "product_not_found" -> 404
    [] OTHER -> 400

\* required-field checks and store resolution
ValidateRequest(r) ==
  IF r.customer.email = "" \/ r.customer.name = S0 \/ r.customer.phone = S0
    THEN "customer_required"
  ELSE IF r.items = <<>> THEN "items_required"
  ELSE IF r.store = NoStore THEN "store_required"
  ELSE "ok"

\* resolveVariantSelection: the key of the resolved variant, or NoVariant
MatchSku(product, sku) ==
  LET hits == { v \in DOMAIN product.variants :
                  LowerSku(product.variants[v].sku) = LowerSku(sku) }
  IN IF sku = NoVariant \/ hits = {} THEN NoVariant ELSE CHOOSE v \in hits : TRUE

ResolveVariantSelection(product, item) ==
  LET ids == DOMAIN product.variants
      byId == IF item.variantId \in ObjectIds /\ item.variantId \in ids
                THEN item.variantId ELSE NoVariant
      bySkuInId == IF byId = NoVariant /\ item.variantId # NoVariant
                      /\ item.variantId \notin ObjectIds
                     THEN MatchSku(product, item.variantId) ELSE byId
  IN IF ids = {} THEN NoVariant
     ELSE IF bySkuInId = NoVariant THEN MatchSku(product, item.variantSku)
     ELSE bySkuInId

\* `product.inventory < item.quantity`: the document has no such path unless
\* the schema declares it; undefined < n is false
InsufficientInventory(product, item) ==
  "inventory" \in DOMAIN product /\ product.inventory < item.quantity

\* `product.inventory -= item.quantity; await product.save()`: save persists
\* schema paths only; an ad-hoc property on the document is not written
DecrementInventory(product, item) ==
  IF "inventory" \in DOMAIN product
    THEN [product EXCEPT !.inventory = @ - item.quantity]
    ELSE product

FallbackProductPrice(product) ==
  IF "price" \in DOMAIN product THEN product.price ELSE product.basePrice

UnitPrice(product, variant, item) ==
  JsOr(item.price,
       JsOr(IF variant = NoVariant THEN 0 ELSE product.variants[variant].price,
            FallbackProductPrice(product)))

ProcessedItem(item, variant, unitPrice) ==
  [product |-> item.productId, variant |-> variant, quantity |-> item.quantity,
   unitPrice |-> unitPrice, totalPrice |-> unitPrice * item.quantity]

\* the item loop; every iteration saves the product it touched
RECURSIVE ProcessItems(_, _, _, _)
ProcessItems(prods, items, k, acc) ==
  IF k > Len(items) THEN [err |-> "ok", products |-> prods, processed |-> acc]
  ELSE
    LET item == items[k] IN
    IF item.productId \notin DOMAIN prods
      THEN [err |-> "product_not_found", products |-> prods, processed |-> acc]
    ELSE
      LET product == prods[item.productId]
          variant == ResolveVariantSelection(product, item)
          unitPrice == UnitPrice(product, variant, item)
      IN IF InsufficientInventory(product, item)
           THEN [err |-> "insufficient_inventory", products |-> prods,
                 processed |-> acc]
         ELSE IF unitPrice <= 0
           THEN [err |-> "invalid_unit_price", products |-> prods,
                 processed |-> acc]
         ELSE ProcessItems(
                [prods EXCEPT ![item.productId] = DecrementInventory(product, item)],
                items, k + 1, Append(acc, ProcessedItem(item, variant, unitPrice)))

CalculatedSubtotal(processed) ==
  SumSeq([i \in 1..Len(processed) |-> processed[i].totalPrice])

(***************************************************************************)
(* Customer resolution                                                     *)
(***************************************************************************)
\* Customer.findOne({email, businessId}): index of the document or 0
FindCustomer(custs, email, businessId) ==
  LET hits == { i \in 1..Len(custs) :
                  custs[i].email = email /\ custs[i].businessId = businessId }
  IN IF hits = {} THEN 0 ELSE CHOOSE i \in hits : \A j \in hits : i <= j

\* Customer.findOne({email})
FindCustomerByEmail(custs, email) ==
  LET hits == { i \in 1..Len(custs) : custs[i].email = email }
  IN IF hits = {} THEN 0 ELSE CHOOSE i \in hits : \A j \in hits : i <= j

NewCustomer(c, businessId) ==
  [businessId |-> businessId, email |-> NormalizeEmail(c.email),
   name |-> Trim(c.name), phone |-> Trim(c.phone), address |-> Trim(c.address)]

NoUniqueIndex(custs, doc) == FALSE

\* unique index {businessId, email}: 11000 on a second document with the key
DuplicateKey(custs, doc) == FindCustomer(custs, doc.email, doc.businessId) # 0

\* "longer value wins": the comparison is on the untrimmed incoming value,
\* the value written is trimmed
LongerWins(incoming, stored) ==
  IF incoming # S0 /\ (stored = S0 \/ Len(incoming) > Len(stored))
    THEN Trim(incoming) ELSE stored

\* the `updates` object computed from the customer document as it was read
\* (`existing`), applied to the stored document: only the fields put into
\* `updates` are written
ApplyUpdates(stored, existing, c) ==
  [stored EXCEPT
     !.name = IF LongerWins(c.name, existing.name) # existing.name
                THEN LongerWins(c.name, existing.name) ELSE @,
     !.phone = IF LongerWins(c.phone, existing.phone) # existing.phone
                 THEN LongerWins(c.phone, existing.phone) ELSE @,
     !.address = IF LongerWins(c.address, existing.address) # existing.address
                   THEN LongerWins(c.address, existing.address) ELSE @]

CustomerUpdates(existing, c) == ApplyUpdates(existing, existing, c)

\* createOrder, transactional operation: find, else create; update only a
\* customer that was found by the first lookup
ResolveCustomerTxn(custs, c, businessId) ==
  LET email == NormalizeEmail(c.email)
      idx == FindCustomer(custs, email, businessId)
      doc == NewCustomer(c, businessId)
  IN IF idx # 0
       THEN [err |-> "ok", id |-> idx,
             customers |-> [custs EXCEPT ![idx] = CustomerUpdates(custs[idx], c)]]
     ELSE IF ~DuplicateKey(custs, doc)
       THEN [err |-> "ok", id |-> Len(custs) + 1, customers |-> Append(custs, doc)]
     ELSE [err |-> "customer_duplicate", id |-> 0, customers |-> custs]

\* after a duplicate key error: look again by (email, tenant), then by email
\* alone and reassign the tenant of the document found
RefindAfterDuplicate(custs, email, businessId) ==
  LET again == FindCustomer(custs, email, businessId)
      byEmail == FindCustomerByEmail(custs, email)
  IN IF again # 0 THEN [id |-> again, customers |-> custs]
     ELSE IF byEmail # 0
       THEN [id |-> byEmail,
             customers |-> [custs EXCEPT ![byEmail].businessId = businessId]]
     ELSE [id |-> 0, customers |-> custs]

\* find, else create, on a duplicate key look again
FindOrCreateCustomer(custs, email, doc) ==
  IF FindCustomer(custs, email, doc.businessId) # 0
    THEN [id |-> FindCustomer(custs, email, doc.businessId), customers |-> custs]
  ELSE IF ~DuplicateKey(custs, doc)
    THEN [id |-> Len(custs) + 1, customers |-> Append(custs, doc)]
  ELSE RefindAfterDuplicate(custs, email, doc.businessId)

WithUpdates(found, c) ==
  IF found.id = 0
    THEN [err |-> "customer_duplicate", id |-> 0, customers |-> found.customers]
    ELSE [err |-> "ok", id |-> found.id,
          customers |-> [found.customers EXCEPT
                           ![found.id] = CustomerUpdates(found.customers[found.id], c)]]

\* createOrderWithoutTransaction and createBooking: find or create, then
\* apply the updates in every case
ResolveCustomerFallback(custs, c, businessId) ==
  WithUpdates(FindOrCreateCustomer(custs, NormalizeEmail(c.email),
                                   NewCustomer(c, businessId)), c)

(***************************************************************************)
(* Pricing and the order document                                          *)
(***************************************************************************)
ShippingCost(r) == JsOr(r.fee, 0)

DiscountAmount(r) == JsOr(r.discount, 0)

FinalTotalNoDiscount(r, calculatedSubtotal) ==
  calculatedSubtotal + 0 + ShippingCost(r)

FinalTotal(r, calculatedSubtotal) ==
  calculatedSubtotal + 0 + ShippingCost(r) - DiscountAmount(r)

\* the comparison of the client figures; its only effect is a log line
FrontendMismatch(r, calculatedSubtotal) ==
  LET frontendSubtotal == JsOr(r.subtotal, calculatedSubtotal)
      frontendTotal == JsOr(r.total, FinalTotal(r, calculatedSubtotal))
  IN Abs(frontendSubtotal - calculatedSubtotal) > 1
     \/ Abs(frontendTotal - FinalTotal(r, calculatedSubtotal)) > 1

PricingFromFrontend(r, calculatedSubtotal) ==
  [subtotal |-> JsOr(r.subtotal, calculatedSubtotal), tax |-> 0,
   shipping |-> ShippingCost(r), discount |-> DiscountAmount(r),
   total |-> JsOr(r.total, FinalTotal(r, calculatedSubtotal))]

Pricing(r, calculatedSubtotal) ==
  [subtotal |-> calculatedSubtotal, tax |-> 0, shipping |-> ShippingCost(r),
   discount |-> DiscountAmount(r), total |-> FinalTotal(r, calculatedSubtotal)]

\* payment: { method, amount: finalTotal, currency, ...payment } and then
\* the paymentSchema defaults
PaymentDoc(r, finalTotal) ==
  r.payment @@ [amount |-> finalTotal]
            @@ [status |-> "pending", refundedAmount |-> 0, refunds |-> <<>>]

NewOrder(r, processed, customerId) ==
  [businessId |-> Stores[r.store].owner, storeId |-> r.store,
   customer |-> [customerId |-> customerId, email |-> r.customer.email],
   items |-> processed,
   pricing |-> Pricing(r, CalculatedSubtotal(processed)),
   discount |-> [appliedAmount |-> r.discount],
   shipping |-> [cost |-> ShippingCost(r)],
   payment |-> PaymentDoc(r, FinalTotal(r, CalculatedSubtotal(processed))),
   status |-> "pending",
   fulfillment |-> {},
   timeline |-> <<>>]

\* orderSchema.pre('save') on a new document
PreSaveNew(order) == [order EXCEPT !.timeline = <<order.status>>]

Db(prods, custs, ords) == [products |-> prods, customers |-> custs, orders |-> ords]

\* The algorithm.  transactional = TRUE: the writes are in one transaction,
\* an error aborts it.  FALSE: every write is persisted when it is made.
Failure(db, transactional, err, partial) ==
  [err |-> err, db |-> IF transactional THEN db ELSE partial, warned |-> FALSE]

PlaceOrderAnyTotal(db, r, transactional, it, cu, calculatedSubtotal) ==
  [err |-> "ok",
   warned |-> FrontendMismatch(r, calculatedSubtotal),
   db |-> Db(it.products, cu.customers,
             Append(db.orders, PreSaveNew(NewOrder(r, it.processed, cu.id))))]

\* validation of the total and creation of the order document
PlaceOrder(db, r, transactional, it, cu, calculatedSubtotal) ==
  IF FinalTotal(r, calculatedSubtotal) <= 0
    THEN Failure(db, transactional, "invalid_total",
                 Db(it.products, cu.customers, db.orders))
    ELSE [err |-> "ok",
          warned |-> FrontendMismatch(r, calculatedSubtotal),
          db |-> Db(it.products, cu.customers,
                    Append(db.orders, PreSaveNew(NewOrder(r, it.processed, cu.id))))]

\* customer resolution, after the item loop ended with `it`
ResolveCustomer(db, r, transactional) ==
  IF transactional
    THEN ResolveCustomerTxn(db.customers, r.customer, Stores[r.store].owner)
    ELSE ResolveCustomerFallback(db.customers, r.customer, Stores[r.store].owner)

AfterCustomer(db, r, transactional, it, cu) ==
  IF cu.err # "ok"
    THEN Failure(db, transactional, cu.err, Db(it.products, cu.customers, db.orders))
    ELSE PlaceOrder(db, r, transactional, it, cu, CalculatedSubtotal(it.processed))

AfterItems(db, r, transactional, it) ==
  IF it.err # "ok"
    THEN Failure(db, transactional, it.err, Db(it.products, db.customers, db.orders))
    ELSE AfterCustomer(db, r, transactional, it, ResolveCustomer(db, r, transactional))

OrderOperation(db, r, transactional) ==
  IF ValidateRequest(r) # "ok"
    THEN Failure(db, transactional, ValidateRequest(r), db)
    ELSE AfterItems(db, r, transactional, ProcessItems(db.products, r.items, 1, <<>>))

createOrderTransaction(db, r) == OrderOperation(db, r, TRUE)

createOrderWithoutTransaction(db, r) == OrderOperation(db, r, FALSE)

\* what retryTransaction ends with, as far as the store decides it:
\* "commit": an attempt's operation runs without a storage error and its
\* commit succeeds; "exhausted": transactions are unsupported or every
\* attempt fails with a storage error
TxnOutcomes == {"commit", "exhausted"}

\* exports.createOrder as one request: the transactional attempts, and on
\* any error thrown out of retryTransaction the fallback
CreateOrderResult(t, f, outcome) ==
  IF outcome = "commit" /\ t.err = "ok"
    THEN [err |-> "ok", db |-> t.db, path |-> "transaction", warned |-> t.warned]
    ELSE [err |-> f.err, db |-> f.db, path |-> "fallback", warned |-> f.warned]

createOrder(db, r, outcome) ==
  CreateOrderResult(createOrderTransaction(db, r),
                    createOrderWithoutTransaction(db, r), outcome)

(***************************************************************************)
(* Requests handled one after another                                      *)
(***************************************************************************)
NoResp == [op |-> "none", code |-> 0, err |-> "ok", path |-> "none", warned |-> FALSE]

Init ==
  /\ products = InitProducts
  /\ customers = <<>>
  /\ orders = <<>>
  /\ bookings = <<>>
  /\ resp = NoResp
  /\ pc = <<>>
  /\ txn = <<>>
  /\ locals = <<>>

(***************************************************************************)
(* Notification dispatch.  `dispatchFails` is the outcome of the mail /      *)
(* WhatsApp transport; each operator says whether an exception reaches the   *)
(* handler's own code after the call.                                        *)
(***************************************************************************)
\* try { await send...(...) } catch (e) { console.error(...) }
NotifyInTryCatch(dispatchFails) == FALSE

sendRefundConfirmationPromiseAll(dispatchFails) == dispatchFails

\* emailService.sendRefundConfirmation: the sends are collected and awaited
\* with Promise.allSettled, the owner lookup sits in its own try/catch
sendRefundConfirmation(dispatchFails) == FALSE

Reply(op, code, err) ==
  [op |-> op, code |-> code, err |-> err, path |-> "none", warned |-> FALSE]

CreateOrder(r, outcome, dispatchFails) ==
  /\ Len(orders) < MaxOrders
  /\ \E res \in {createOrder(Db(products, customers, orders), r, outcome)} :
        /\ products' = res.db.products
        /\ customers' = res.db.customers
        /\ orders' = res.db.orders
        /\ resp' = IF res.err = "ok" /\ NotifyInTryCatch(dispatchFails)
                      THEN Reply("createOrder", 500, "mail")
                      ELSE [op |-> "createOrder", code |-> ErrCode(res.err),
                            err |-> res.err, path |-> res.path,
                            warned |-> res.warned]
  /\ UNCHANGED <<bookings, racevars>>

(***************************************************************************)
(* Order lifecycle: model hooks and methods (order.model.js)               *)
(***************************************************************************)
OrderStatuses ==
  {"pending", "confirmed", "processing", "shipped", "delivered", "cancelled",
   "partially_refunded", "refunded"}

PreSaveOldStatus(saved, doc) ==
  LET recalc == doc.items # saved.items \/ doc.discount # saved.discount
                  \/ doc.shipping.cost # saved.shipping.cost
      subtotal == SumSeq([i \in 1..Len(doc.items) |-> doc.items[i].totalPrice])
      d1 == IF recalc
              THEN [doc EXCEPT !.pricing =
                      [subtotal |-> subtotal, tax |-> @.tax,
                       shipping |-> JsOr(doc.shipping.cost, 0),
                       discount |-> JsOr(doc.discount.appliedAmount, 0),
                       total |-> subtotal + @.tax + JsOr(doc.shipping.cost, 0)
                                   - JsOr(doc.discount.appliedAmount, 0)]]
              ELSE doc
  IN IF d1.status # saved.status
       THEN [d1 EXCEPT !.timeline = Append(@, saved.status)]
       ELSE d1

\* orderSchema.pre('save') on an existing document: `saved` is the document
\* as last persisted, `doc` the document being saved
PreSave(saved, doc) ==
  LET recalc == doc.items # saved.items \/ doc.discount # saved.discount
                  \/ doc.shipping.cost # saved.shipping.cost
      subtotal == SumSeq([i \in 1..Len(doc.items) |-> doc.items[i].totalPrice])
      d1 == IF recalc
              THEN [doc EXCEPT !.pricing =
                      [subtotal |-> subtotal, tax |-> @.tax,
                       shipping |-> JsOr(doc.shipping.cost, 0),
                       discount |-> JsOr(doc.discount.appliedAmount, 0),
                       total |-> subtotal + @.tax + JsOr(doc.shipping.cost, 0)
                                   - JsOr(doc.discount.appliedAmount, 0)]]
              ELSE doc
  IN IF d1.status # saved.status
       THEN [d1 EXCEPT !.timeline = Append(@, d1.status)]
       ELSE d1

\* orderSchema.methods.updateStatus
updateStatus(saved, doc, newStatus) ==
  PreSave(saved, [doc EXCEPT !.status = newStatus,
                             !.timeline = Append(@, newStatus)])

calculateRefundAmount(order) ==
  Max(order.payment.amount - order.payment.refundedAmount, 0)

canBeCancelledInProcessing(order) ==
  order.status \in {"pending", "confirmed", "processing"}

canBeCancelled(order) == order.status \in {"pending", "confirmed"}

canBeRefundedAnyPayment(order) ==
  /\ calculateRefundAmount(order) > 0
  /\ order.status \in {"delivered", "shipped", "partially_refunded"}

canBeRefunded(order) ==
  /\ calculateRefundAmount(order) > 0
  /\ order.status \in {"delivered", "shipped", "partially_refunded"}
  /\ order.payment.status \in {"completed", "partially_refunded"}

(***************************************************************************)
(* Order lifecycle: request handlers                                       *)
(***************************************************************************)
Persist(o, doc) ==
  /\ Len(doc.timeline) <= MaxTimeline
  /\ orders' = [orders EXCEPT ![o] = doc]

UpdateOrderStatus(o, status, dispatchFails) ==
  /\ o \in 1..Len(orders)
  /\ Persist(o, updateStatus(orders[o], orders[o], status))
  /\ resp' = IF orders[o].status # status /\ NotifyInTryCatch(dispatchFails)
               THEN Reply("updateOrderStatus", 500, "mail")
               ELSE Reply("updateOrderStatus", 200, "ok")
  /\ UNCHANGED <<products, customers, bookings, racevars>>

UpdatePaymentStatusAnyOrderStatus(o, paymentStatus) ==
  /\ o \in 1..Len(orders)
  /\ LET order == orders[o]
         o1 == [order EXCEPT !.payment.status = paymentStatus]
     IN IF paymentStatus = "completed"
          THEN Persist(o, updateStatus(order, o1, "confirmed"))
          ELSE Persist(o, PreSave(order, o1))
  /\ resp' = Reply("updatePaymentStatus", 200, "ok")
  /\ UNCHANGED <<products, customers, bookings, racevars>>

UpdatePaymentStatus(o, paymentStatus) ==
  /\ o \in 1..Len(orders)
  /\ LET order == orders[o]
         o1 == [order EXCEPT !.payment.status = paymentStatus]
     IN IF paymentStatus = "completed" /\ o1.status = "pending"
          THEN Persist(o, updateStatus(order, o1, "confirmed"))
          ELSE Persist(o, PreSave(order, o1))
  /\ resp' = Reply("updatePaymentStatus", 200, "ok")
  /\ UNCHANGED <<products, customers, bookings, racevars>>

UpdateFulfillment(o, type) ==
  /\ o \in 1..Len(orders)
  /\ LET order == orders[o]
         o1 == [order EXCEPT !.fulfillment = @ \cup {type}]
     IN IF type = "shipped" /\ o1.status = "processing"
          THEN Persist(o, updateStatus(order, o1, "shipped"))
        ELSE IF type = "delivered" /\ o1.status = "shipped"
          THEN Persist(o, updateStatus(order, o1, "delivered"))
        ELSE Persist(o, PreSave(order, o1))
  /\ resp' = Reply("updateFulfillment", 200, "ok")
  /\ UNCHANGED <<products, customers, bookings, racevars>>

\* `product.inventory += item.quantity; await product.save()`
RestoreInventory(product, item) ==
  IF "inventory" \in DOMAIN product
    THEN [product EXCEPT !.inventory = @ + item.quantity]
    ELSE product

RECURSIVE RestoreItems(_, _, _)
RestoreItems(prods, items, k) ==
  IF k > Len(items) THEN prods
  ELSE LET item == items[k] IN
       IF item.product \in DOMAIN prods
         THEN RestoreItems([prods EXCEPT ![item.product] =
                              RestoreInventory(prods[item.product], item)],
                           items, k + 1)
         ELSE RestoreItems(prods, items, k + 1)

CancelOrder(o, refundAmount, dispatchFails) ==
  /\ o \in 1..Len(orders)
  /\ LET order == orders[o]
         o1 == updateStatus(order, order, "cancelled")
         o2 == IF refundAmount # 0 /\ o1.payment.status = "completed"
                 THEN [o1 EXCEPT !.payment.status = "refunded"]
                 ELSE o1
     IN IF ~canBeCancelled(order)
          THEN /\ resp' = Reply("cancelOrder", 400, "not_cancellable")
               /\ UNCHANGED <<products, orders>>
          ELSE /\ products' = RestoreItems(products, order.items, 1)
               /\ Persist(o, PreSave(o1, o2))
               /\ resp' = IF NotifyInTryCatch(dispatchFails)
                            THEN Reply("cancelOrder", 500, "mail")
                            ELSE Reply("cancelOrder", 200, "ok")
  /\ UNCHANGED <<customers, bookings, racevars>>

RefundRejection(order, amount) ==
  IF ~canBeRefunded(order) THEN "not_eligible"
  ELSE IF amount <= 0 THEN "amount_not_positive"
  ELSE IF calculateRefundAmount(order) <= 0 THEN "already_refunded"
  ELSE IF amount > calculateRefundAmount(order) THEN "amount_exceeds_balance"
  ELSE "ok"

\* the state update of a refund that passed the guards, before save
ApplyRefund(order, amount) ==
  LET updatedRefundTotal == JsOr(order.payment.refundedAmount, 0) + amount
      isFullyRefunded == updatedRefundTotal >= order.payment.amount
      o1 == [order EXCEPT !.payment.refundedAmount = updatedRefundTotal,
                          !.payment.refunds = Append(@, amount)]
      o2 == IF isFullyRefunded
              THEN [o1 EXCEPT !.payment.status = "refunded", !.status = "refunded"]
              ELSE [o1 EXCEPT !.payment.status = "partially_refunded",
                              !.status = IF @ # "refunded"
                                           THEN "partially_refunded" ELSE @]
  IN [o2 EXCEPT !.timeline =
        Append(@, IF isFullyRefunded THEN "refunded" ELSE "partially_refunded")]

\* an exception of sendRefundConfirmation after the save would be turned
\* into a 500 by the handler's catch
ProcessRefund(o, amount, dispatchFails) ==
  /\ o \in 1..Len(orders)
  /\ LET order == orders[o]
         why == RefundRejection(order, amount)
     IN IF why # "ok"
          THEN /\ resp' = Reply("processRefund", 400, why)
               /\ UNCHANGED orders
          ELSE /\ Persist(o, PreSave(order, ApplyRefund(order, amount)))
               /\ resp' = IF sendRefundConfirmation(dispatchFails)
                            THEN Reply("processRefund", 500, "mail")
                            ELSE Reply("processRefund", 200, "ok")
  /\ UNCHANGED <<products, customers, bookings, racevars>>

\* createOrder and cancelOrder requests, one after another
Next ==
  \/ \E r \in OrderRequests, outcome \in TxnOutcomes, mf \in BOOLEAN :
        CreateOrder(r, outcome, mf)
  \/ \E o \in 1..Len(orders), ra \in {0, 1}, mf \in BOOLEAN : CancelOrder(o, ra, mf)

Spec == Init /\ [][Next]_vars


(***************************************************************************)
(* Concurrent creations: one step per awaited store call that other        *)
(* requests can observe.  A transaction reads from the snapshot taken at   *)
(* its first read and keeps its writes to itself until commit; a write     *)
(* that meets an uncommitted write of another transaction fails with       *)
(* WriteConflict, a write outside a transaction waits for it.              *)
(***************************************************************************)
NumRequests == 2

Procs == 1..NumRequests

\* retryTransaction(operation, maxRetries = 3)
MaxRetries == 3

BookingRequest(c, slot, sub, tot, disc, store) ==
  [customer |-> c, slotId |-> slot, dates |-> TRUE, subtotal |-> sub,
   total |-> tot, discount |-> disc, store |-> store]

\* the concurrent requests: every one resolves the customer (b1, a@x); the
\* order brings the longer name, the booking the longer phone
RaceRequests ==
  { [kind |-> "order",
     req |-> OrderRequest(CustomerInput("A@X ", Sab, Sa, S0), <<ItemV1>>,
                          0, 0, 0, 0, NoFields, "s1")],
    [kind |-> "booking",
     req |-> BookingRequest(CustomerInput("a@x", Sa, Sab, S0), "sl1", 0, 0, 0, "s1")] }

\* errors as retryTransaction sees them
MongoError(code, codeName) == [code |-> code, codeName |-> codeName]

AppError == MongoError(0, "AppError")
WriteConflict == MongoError(112, "WriteConflict")
NoSuchTransaction == MongoError(251, "NoSuchTransaction")
IllegalOperation == MongoError(20, "IllegalOperation")
NoError == MongoError(0, "none")

IsRetryableAny(error) == TRUE

IsRetryable(error) ==
  error.code \in {251, 50, 112} \/ error.codeName = "TransientTransactionError"

\* what an insert inside a transaction ends with when the key was committed
\* by another request after the snapshot: a write conflict, or a duplicate
\* key error followed by a lookup in the (aborted) transaction that throws
\* NoSuchTransaction, or by a lookup in the snapshot that finds nothing
CollisionErrors == {WriteConflict, NoSuchTransaction, AppError}

\* errors of startSession / startTransaction / the first operation
BeginErrors == {NoSuchTransaction, IllegalOperation}

NoDoc == [businessId |-> "", email |-> "", name |-> S0, phone |-> S0, address |-> S0]

NoTxn ==
  [open |-> FALSE, base |-> InitProducts, products |-> InitProducts,
   customers |-> <<>>, newDoc |-> NoDoc, updated |-> 0]

NoLocals(q) ==
  [kind |-> q.kind, req |-> q.req, attempt |-> 1, items |-> <<>>,
   found |-> 0, cust |-> NoDoc, saveError |-> 0, code |-> 0, err |-> "ok",
   path |-> "none", customerId |-> 0, ref |-> 0, lastError |-> NoError,
   sent |-> 0]

InitRace ==
  /\ products = InitProducts
  /\ customers = <<>>
  /\ orders = <<>>
  /\ bookings = <<>>
  /\ resp = NoResp
  /\ \E q \in [Procs -> RaceRequests] :
       /\ locals = [p \in Procs |-> NoLocals(q[p])]
       /\ pc = [p \in Procs |-> IF q[p].kind = "order" THEN "txnBegin" ELSE "fbFind"]
  /\ txn = [p \in Procs |-> NoTxn]

Owner(p) == Stores[locals[p].req.store].owner

Email(p) == NormalizeEmail(locals[p].req.customer.email)

\* an uncommitted insert of another transaction holds the unique key of doc
KeyHeld(p, doc) ==
  \E q \in Procs \ {p} : txn[q].open /\ DuplicateKey(<<txn[q].newDoc>>, doc)

\* an uncommitted update of another transaction holds customer id
DocHeld(p, id) ==
  \E q \in Procs \ {p} : txn[q].open /\ txn[q].updated = id

\* a product written by the transaction was written by another open one
ProductConflict(p, written) ==
  \E q \in Procs \ {p}, x \in DOMAIN written :
    /\ txn[q].open
    /\ written[x] # products[x]
    /\ txn[q].products[x] # txn[q].base[x]

\* the catch block of retryTransaction: abort, then retry or give up; the
\* error that leaves retryTransaction sends createOrder to the fallback
\* `dispatched`: the confirmations the attempt sent before it threw
ThrowAfter(p, error, saveError, dispatched) ==
  /\ txn' = [txn EXCEPT ![p] = NoTxn]
  /\ locals' = [locals EXCEPT
                  ![p].sent = @ + dispatched,
                  ![p].attempt = IF IsRetryable(error) /\ @ < MaxRetries
                                   THEN @ + 1 ELSE @,
                  ![p].found = 0,
                  ![p].lastError = error,
                  ![p].saveError = IF saveError # 0 THEN saveError ELSE @]
  /\ pc' = [pc EXCEPT ![p] = IF IsRetryable(error) /\ locals[p].attempt < MaxRetries
                               THEN "txnBegin" ELSE "fbFind"]

Throw(p, error, saveError) == ThrowAfter(p, error, saveError, 0)

\* the end of a request; a created order is announced by
\* sendOrderConfirmation before the result is returned
Finish(p, code, err, path, customerId, ref) ==
  /\ pc' = [pc EXCEPT ![p] = "done"]
  /\ locals' = [locals EXCEPT ![p].code = code, ![p].err = err, ![p].path = path,
                              ![p].customerId = customerId, ![p].ref = ref,
                              ![p].sent = IF code = 201 /\ path # "booking"
                                            THEN @ + 1 ELSE @]

\* where a request goes once it holds the customer document `doc`: to the
\* update if the `updates` object is not empty, else on to the save
AfterCustomerFound(doc, c, update, save) ==
  IF CustomerUpdates(doc, c) = doc THEN save ELSE update

\* the operation up to the customer lookup: first read (snapshot), the item
\* loop with its product saves, Customer.findOne
TxnBegin(p) ==
  /\ pc[p] = "txnBegin"
  /\ \E r \in {locals[p].req} :
       IF ValidateRequest(r) # "ok"
         THEN Throw(p, AppError, 0)
         ELSE \E it \in {ProcessItems(products, r.items, 1, <<>>)},
                 id \in {FindCustomer(customers, Email(p), Owner(p))} :
                IF it.err # "ok" THEN Throw(p, AppError, 0)
                ELSE IF ProductConflict(p, it.products) THEN Throw(p, WriteConflict, 0)
                ELSE /\ txn' = [txn EXCEPT ![p] =
                                  [open |-> TRUE, base |-> products,
                                   products |-> it.products, customers |-> customers,
                                   newDoc |-> NoDoc, updated |-> 0]]
                     /\ locals' = [locals EXCEPT ![p].found = id,
                                                 ![p].items = it.processed]
                     /\ pc' = [pc EXCEPT ![p] =
                                 IF id = 0 THEN "txnCustomer"
                                 ELSE AfterCustomerFound(customers[id], r.customer,
                                                         "txnCustomer", "txnCommit")]
  /\ UNCHANGED <<dbvars, resp>>

\* startSession / startTransaction / the first operation fails
TxnFault(p, error) ==
  /\ pc[p] = "txnBegin"
  /\ Throw(p, error, 0)
  /\ UNCHANGED <<dbvars, resp>>

\* the customer write of the operation: the insert of a customer not found,
\* or the update of the one found
TxnCustomer(p, error) ==
  /\ pc[p] = "txnCustomer"
  /\ \E id \in {locals[p].found}, c \in {locals[p].req.customer} :
       IF id # 0
         THEN IF DocHeld(p, id) \/ customers[id] # txn[p].customers[id]
                THEN Throw(p, WriteConflict, 0)
                ELSE /\ txn' = [txn EXCEPT
                                  ![p].customers[id] = CustomerUpdates(@, c),
                                  ![p].updated = id]
                     /\ pc' = [pc EXCEPT ![p] = "txnCommit"]
                     /\ UNCHANGED locals
       ELSE IF KeyHeld(p, NewCustomer(c, Owner(p)))
         THEN Throw(p, WriteConflict, 0)
       ELSE IF DuplicateKey(customers, NewCustomer(c, Owner(p)))
         THEN Throw(p, error, IF error = WriteConflict THEN 0 ELSE 11000)
       ELSE /\ txn' = [txn EXCEPT ![p].newDoc = NewCustomer(c, Owner(p))]
            /\ pc' = [pc EXCEPT ![p] = "txnCommit"]
            /\ UNCHANGED locals
  /\ UNCHANGED <<dbvars, resp>>

\* the writes of a committing transaction reach the store together
CommitCustomers(t) ==
  IF t.newDoc # NoDoc THEN Append(customers, t.newDoc)
  ELSE IF t.updated # 0
    THEN [customers EXCEPT ![t.updated] = t.customers[t.updated]]
  ELSE customers

CommitProducts(t) ==
  [x \in DOMAIN products |->
     IF t.products[x] # t.base[x] THEN t.products[x] ELSE products[x]]

\* validation of the total, order.save and commitTransaction
TxnCommit(p) ==
  /\ pc[p] = "txnCommit"
  /\ \E r \in {locals[p].req}, t \in {txn[p]},
        cid \in {IF locals[p].found # 0 THEN locals[p].found ELSE Len(customers) + 1} :
       IF FinalTotal(r, CalculatedSubtotal(locals[p].items)) <= 0
         THEN Throw(p, AppError, 0) /\ UNCHANGED dbvars
         ELSE /\ customers' = CommitCustomers(t)
              /\ products' = CommitProducts(t)
              /\ orders' = Append(orders, PreSaveNew(NewOrder(r, locals[p].items, cid)))
              /\ txn' = [txn EXCEPT ![p] = NoTxn]
              /\ Finish(p, 201, "ok", "transaction", cid, Len(orders) + 1)
              /\ UNCHANGED bookings
  /\ UNCHANGED resp

\* a failing commit that leaves the order of the attempt in the store
TxnCommitFaultNoRollback(p) ==
  /\ pc[p] = "txnCommit"
  /\ FinalTotal(locals[p].req, CalculatedSubtotal(locals[p].items)) > 0
  /\ ThrowAfter(p, NoSuchTransaction, 0, 1)
  /\ orders' = Append(orders, PreSaveNew(NewOrder(locals[p].req, locals[p].items, 1)))
  /\ UNCHANGED <<products, customers, bookings, resp>>

\* order.save({ session }) and the notifications went through, then
\* commitTransaction fails (the transaction expired or was aborted by the
\* server): the order is rolled back with the rest
TxnCommitFault(p) ==
  /\ pc[p] = "txnCommit"
  /\ FinalTotal(locals[p].req, CalculatedSubtotal(locals[p].items)) > 0
  /\ ThrowAfter(p, NoSuchTransaction, 0, 1)
  /\ UNCHANGED <<dbvars, resp>>

\* createBooking: required fields, store, slot
ValidateBooking(r) ==
  IF r.customer.email = "" \/ r.customer.name = S0 \/ r.customer.phone = S0
    THEN "customer_required"
  ELSE IF r.slotId = NoVariant THEN "slot_required"
  ELSE IF ~r.dates THEN "dates_required"
  ELSE IF r.store = NoStore THEN "store_required"
  ELSE IF ~Stores[r.store].bookingEnabled THEN "bookings_disabled"
  ELSE IF r.slotId \notin DOMAIN BookingSlots THEN "slot_not_found"
  ELSE IF BookingSlots[r.slotId].storeId # r.store THEN "slot_wrong_store"
  ELSE IF BookingSlots[r.slotId].status # "active" THEN "slot_unavailable"
  ELSE "ok"

BookingErrCode(err) ==
  CASE err = "ok" -> 201
    [] err = "slot_not_found" -> 404
    [] err = "slot_wrong_store" -> 403
    [] OTHER -> 400

BookingPricing(r) ==
  [subtotal |-> JsOr(r.subtotal, BookingSlots[r.slotId].price), tax |-> 0,
   discount |-> JsOr(r.discount, 0),
   total |-> JsOr(r.total, JsOr(r.subtotal, BookingSlots[r.slotId].price)
                             - JsOr(r.discount, 0))]

NewBooking(r, customerId) ==
  [storeId |-> r.store, slotId |-> r.slotId,
   customer |-> [customerId |-> customerId,
                 email |-> NormalizeEmail(r.customer.email)],
   pricing |-> BookingPricing(r),
   status |-> "pending",
   payment |-> [status |-> "pending", amount |-> BookingPricing(r).total],
   timeline |-> <<"pending">>]

(***************************************************************************)
(* Booking lifecycle: model hooks and methods (booking.model.js) and the   *)
(* handlers of booking.controller.js, one request after another            *)
(***************************************************************************)
BookingStatuses == {"pending", "confirmed", "cancelled", "completed", "no_show"}

\* bookingSchema.pre('save') on an existing document
BookingPreSave(saved, doc) ==
  IF doc.status # saved.status
    THEN [doc EXCEPT !.timeline = Append(@, doc.status)]
    ELSE doc

\* bookingSchema.methods.updateStatus
bookingUpdateStatus(saved, newStatus) ==
  BookingPreSave(saved, [saved EXCEPT !.status = newStatus,
                                      !.timeline = Append(@, newStatus)])

bookingCanBeCancelled(booking) == booking.status \in {"pending", "confirmed"}

PersistBooking(b, doc) ==
  /\ Len(doc.timeline) <= MaxTimeline
  /\ bookings' = [bookings EXCEPT ![b] = doc]

\* createBooking as one request: checks, customer, Booking.create
BookingCreated(custs, bks, r, cu) ==
  IF cu.err # "ok"
    THEN [err |-> cu.err, customers |-> cu.customers, bookings |-> bks]
    ELSE [err |-> "ok", customers |-> cu.customers,
          bookings |-> Append(bks, NewBooking(r, cu.id))]

createBooking(custs, bks, r) ==
  IF ValidateBooking(r) # "ok"
    THEN [err |-> ValidateBooking(r), customers |-> custs, bookings |-> bks]
    ELSE BookingCreated(custs, bks, r,
           ResolveCustomerFallback(custs, r.customer, Stores[r.store].owner))

CreateBooking(r, dispatchFails) ==
  /\ Len(bookings) < MaxOrders
  /\ \E res \in {createBooking(customers, bookings, r)} :
        /\ customers' = res.customers
        /\ bookings' = res.bookings
        /\ resp' = IF res.err = "ok" /\ NotifyInTryCatch(dispatchFails)
                      THEN Reply("createBooking", 500, "mail")
                      ELSE Reply("createBooking", BookingErrCode(res.err), res.err)
  /\ UNCHANGED <<products, orders, racevars>>

UpdateBookingStatus(b, status, notifyCustomer, dispatchFails) ==
  /\ b \in 1..Len(bookings)
  /\ PersistBooking(b, bookingUpdateStatus(bookings[b], status))
  /\ resp' = IF notifyCustomer /\ NotifyInTryCatch(dispatchFails)
               THEN Reply("updateBookingStatus", 500, "mail")
               ELSE Reply("updateBookingStatus", 200, "ok")
  /\ UNCHANGED <<products, customers, orders, racevars>>

UpdateBookingPayment(b, status) ==
  /\ b \in 1..Len(bookings)
  /\ PersistBooking(b, BookingPreSave(bookings[b],
                         [bookings[b] EXCEPT !.payment.status = status]))
  /\ resp' = Reply("updateBookingPayment", 200, "ok")
  /\ UNCHANGED <<products, customers, orders, racevars>>

CancelBooking(b, notifyCustomer, dispatchFails) ==
  /\ b \in 1..Len(bookings)
  /\ IF ~bookingCanBeCancelled(bookings[b])
       THEN /\ resp' = Reply("cancelBooking", 400, "not_cancellable")
            /\ UNCHANGED bookings
       ELSE /\ PersistBooking(b, bookingUpdateStatus(bookings[b], "cancelled"))
            /\ resp' = IF notifyCustomer /\ NotifyInTryCatch(dispatchFails)
                         THEN Reply("cancelBooking", 500, "mail")
                         ELSE Reply("cancelBooking", 200, "ok")
  /\ UNCHANGED <<products, customers, orders, racevars>>

(***************************************************************************)
(* The life of one order or one booking: creation, then any sequence of    *)
(* the handlers that work on it                                            *)
(***************************************************************************)
StatusInputs == {"pending", "processing", "shipped", "delivered"}
PaymentStatusInputs == {"completed", "failed"}
FulfillmentTypes == {"shipped", "delivered"}
RefundAmounts == {0, 1, 2, 3, 6}

CreateLifeOrder(r, outcome, dispatchFails) ==
  /\ orders = <<>> /\ bookings = <<>>
  /\ CreateOrder(r, outcome, dispatchFails)

BookingStatusInputs == {"confirmed", "completed", "no_show"}

\* client <<subtotal, total>> absent, consistent, inconsistent; a slot that
\* does not exist; a store with bookings switched off
BookingLifeRequests ==
  { BookingRequest(BaseCustomer, "sl1", sub, tot, disc, "s1") :
      sub \in {0, 5}, tot \in {0, 4, 9}, disc \in {0, 1} }
  \cup { BookingRequest(BaseCustomer, "sl9", 0, 0, 0, "s1"),
         BookingRequest(BaseCustomer, "sl1", 0, 0, 0, "s2") }

CreateLifeBooking(r, dispatchFails) ==
  /\ orders = <<>> /\ bookings = <<>>
  /\ CreateBooking(r, dispatchFails)

NextLife ==
  \/ \E r \in LifeRequests, outcome \in TxnOutcomes, mf \in BOOLEAN :
        CreateLifeOrder(r, outcome, mf)
  \/ \E o \in 1..Len(orders), st \in StatusInputs, mf \in BOOLEAN :
        UpdateOrderStatus(o, st, mf)
  \/ \E o \in 1..Len(orders), ps \in PaymentStatusInputs : UpdatePaymentStatus(o, ps)
  \/ \E o \in 1..Len(orders), ty \in FulfillmentTypes : UpdateFulfillment(o, ty)
  \/ \E o \in 1..Len(orders), ra \in {0, 1}, mf \in BOOLEAN : CancelOrder(o, ra, mf)
  \/ \E o \in 1..Len(orders), am \in RefundAmounts, mf \in BOOLEAN :
        ProcessRefund(o, am, mf)
  \/ \E r \in BookingLifeRequests, mf \in BOOLEAN : CreateLifeBooking(r, mf)
  \/ \E b \in 1..Len(bookings), st \in BookingStatusInputs, nc, mf \in BOOLEAN :
        UpdateBookingStatus(b, st, nc, mf)
  \/ \E b \in 1..Len(bookings), ps \in PaymentStatusInputs : UpdateBookingPayment(b, ps)
  \/ \E b \in 1..Len(bookings), nc, mf \in BOOLEAN : CancelBooking(b, nc, mf)

SpecLife == Init /\ [][NextLife]_vars

\* what precedes the customer lookup outside a transaction: the checks, and
\* for an order the item loop, whose product saves are persisted at once
BeforeCustomer(kind, r) ==
  IF kind = "booking"
    THEN [err |-> ValidateBooking(r), code |-> BookingErrCode(ValidateBooking(r)),
          products |-> products, processed |-> <<>>]
  ELSE IF ValidateRequest(r) # "ok"
    THEN [err |-> ValidateRequest(r), code |-> 400,
          products |-> products, processed |-> <<>>]
  ELSE [err |-> ProcessItems(products, r.items, 1, <<>>).err,
        code |-> ErrCode(ProcessItems(products, r.items, 1, <<>>).err),
        products |-> ProcessItems(products, r.items, 1, <<>>).products,
        processed |-> ProcessItems(products, r.items, 1, <<>>).processed]

PathOf(kind) == IF kind = "booking" THEN "booking" ELSE "fallback"

\* createOrderWithoutTransaction / createBooking up to Customer.findOne
FbFind(p) ==
  /\ pc[p] = "fbFind"
  /\ \E b \in {BeforeCustomer(locals[p].kind, locals[p].req)} :
       /\ products' = b.products
       /\ IF b.err # "ok"
            THEN Finish(p, b.code, b.err, PathOf(locals[p].kind), 0, 0)
            ELSE \E id \in {FindCustomer(customers, Email(p), Owner(p))} :
                   /\ locals' = [locals EXCEPT
                                   ![p].found = id, ![p].items = b.processed,
                                   ![p].cust = IF id = 0 THEN NoDoc ELSE customers[id]]
                   /\ pc' = [pc EXCEPT ![p] =
                               IF id = 0 THEN "fbInsert"
                               ELSE AfterCustomerFound(customers[id],
                                      locals[p].req.customer, "fbUpdate", "fbSave")]
  /\ UNCHANGED <<customers, orders, bookings, resp, txn>>

\* the save of a new customer outside a transaction; on 11000 the request
\* goes on to look again
FbInsert(p) ==
  /\ pc[p] = "fbInsert"
  /\ \E doc \in {NewCustomer(locals[p].req.customer, Owner(p))} :
       /\ ~KeyHeld(p, doc)
       /\ IF DuplicateKey(customers, doc)
            THEN /\ pc' = [pc EXCEPT ![p] = "fbRefind"]
                 /\ locals' = [locals EXCEPT ![p].saveError = 11000]
                 /\ UNCHANGED customers
            ELSE /\ customers' = Append(customers, doc)
                 /\ locals' = [locals EXCEPT ![p].found = Len(customers) + 1,
                                             ![p].cust = doc]
                 /\ pc' = [pc EXCEPT ![p] =
                             AfterCustomerFound(doc, locals[p].req.customer,
                                                "fbUpdate", "fbSave")]
  /\ UNCHANGED <<products, orders, bookings, resp, txn>>

\* the lookups after a duplicate key error
FbRefind(p) ==
  /\ pc[p] = "fbRefind"
  /\ \E re \in {RefindAfterDuplicate(customers, Email(p), Owner(p))} :
       /\ customers' = re.customers
       /\ IF re.id = 0
            THEN Finish(p, 400, "customer_duplicate", PathOf(locals[p].kind), 0, 0)
            ELSE /\ locals' = [locals EXCEPT ![p].found = re.id,
                                             ![p].cust = re.customers[re.id]]
                 /\ pc' = [pc EXCEPT ![p] =
                             AfterCustomerFound(re.customers[re.id],
                               locals[p].req.customer, "fbUpdate", "fbSave")]
  /\ UNCHANGED <<products, orders, bookings, resp, txn>>

\* Customer.findByIdAndUpdate(id, updates) / existingCustomer.save()
FbUpdate(p) ==
  /\ pc[p] = "fbUpdate"
  /\ ~DocHeld(p, locals[p].found)
  /\ customers' = [customers EXCEPT ![locals[p].found] =
                     ApplyUpdates(@, locals[p].cust, locals[p].req.customer)]
  /\ pc' = [pc EXCEPT ![p] = "fbSave"]
  /\ UNCHANGED <<products, orders, bookings, resp, txn, locals>>

\* validation of the total and order.save(), or Booking.create()
FbSave(p) ==
  /\ pc[p] = "fbSave"
  /\ \E r \in {locals[p].req}, cid \in {locals[p].found} :
       IF locals[p].kind = "booking"
         THEN /\ bookings' = Append(bookings, NewBooking(r, cid))
              /\ Finish(p, 201, "ok", "booking", cid, Len(bookings) + 1)
              /\ UNCHANGED orders
       ELSE IF FinalTotal(r, CalculatedSubtotal(locals[p].items)) <= 0
         THEN /\ Finish(p, 400, "invalid_total", "fallback", 0, 0)
              /\ UNCHANGED <<orders, bookings>>
       ELSE /\ orders' = Append(orders, PreSaveNew(NewOrder(r, locals[p].items, cid)))
            /\ Finish(p, 201, "ok", "fallback", cid, Len(orders) + 1)
            /\ UNCHANGED bookings
  /\ UNCHANGED <<products, customers, resp, txn>>

NextRace ==
  \/ \E p \in Procs : TxnBegin(p)
  \/ \E p \in Procs, e \in BeginErrors : TxnFault(p, e)
  \/ \E p \in Procs, e \in CollisionErrors : TxnCustomer(p, e)
  \/ \E p \in Procs : TxnCommit(p)
  \/ \E p \in Procs : FbFind(p)
  \/ \E p \in Procs : FbInsert(p)
  \/ \E p \in Procs : FbRefind(p)
  \/ \E p \in Procs : FbUpdate(p)
  \/ \E p \in Procs : FbSave(p)

SpecRace == InitRace /\ [][NextRace]_vars

\* concurrent createOrder requests whose commits may fail: the storage
\* faults are the collisions between the requests and the failing commit
\* (a discount of 2 brings the total of the request to 0: it is refused)
CommitRequests ==
  { [kind |-> "order",
     req |-> OrderRequest(CustomerInput("a@x", Sa, Sa, S0), <<ItemV1>>,
                          0, disc, 0, 0, NoFields, "s1")] : disc \in {0, 2} }

InitCommit ==
  /\ products = InitProducts
  /\ customers = <<>>
  /\ orders = <<>>
  /\ bookings = <<>>
  /\ resp = NoResp
  /\ \E q \in [Procs -> CommitRequests] :
       locals = [p \in Procs |-> NoLocals(q[p])]
  /\ pc = [p \in Procs |-> "txnBegin"]
  /\ txn = [p \in Procs |-> NoTxn]

NextCommit ==
  \/ \E p \in Procs : TxnBegin(p)
  \/ \E p \in Procs, e \in CollisionErrors : TxnCustomer(p, e)
  \/ \E p \in Procs : TxnCommit(p)
  \/ \E p \in Procs : TxnCommitFault(p)
  \/ \E p \in Procs : FbFind(p)
  \/ \E p \in Procs : FbInsert(p)
  \/ \E p \in Procs : FbRefind(p)
  \/ \E p \in Procs : FbSave(p)

SpecCommit == InitCommit /\ [][NextCommit]_vars

\* concurrent createOrder requests of tenant b1 for the email a@x, in a
\* store that holds a customer with that email under tenant b2
OtherTenantCustomer == NewCustomer(BaseCustomer, "b2")

InitResolve ==
  /\ products = InitProducts
  /\ customers = <<OtherTenantCustomer>>
  /\ orders = <<>>
  /\ bookings = <<>>
  /\ resp = NoResp
  /\ \E q \in [Procs -> CommitRequests] :
       locals = [p \in Procs |-> NoLocals(q[p])]
  /\ pc = [p \in Procs |-> "txnBegin"]
  /\ txn = [p \in Procs |-> NoTxn]

NextResolve ==
  \/ \E p \in Procs : TxnBegin(p)
  \/ \E p \in Procs, e \in BeginErrors : TxnFault(p, e)
  \/ \E p \in Procs, e \in CollisionErrors : TxnCustomer(p, e)
  \/ \E p \in Procs : TxnCommit(p)
  \/ \E p \in Procs : FbFind(p)
  \/ \E p \in Procs : FbInsert(p)
  \/ \E p \in Procs : FbRefind(p)
  \/ \E p \in Procs : FbSave(p)

SpecResolve == InitResolve /\ [][NextResolve]_vars

\* order and booking creations, one after another, for customers whose
\* name, phone and address come short, long, and padded with blanks
NextCustomer ==
  \/ \E e \in {"a@x", "b@x"}, n \in {Sa, Sab, Spad}, ph \in {Sa, Sab, Spad},
        ad \in {S0, Sab, Spad}, outcome \in TxnOutcomes, mf \in BOOLEAN :
        CreateOrder(OrderRequest(CustomerInput(e, n, ph, ad), <<ItemV1>>,
                                 0, 0, 0, 0, NoFields, "s1"), outcome, mf)
  \/ \E e \in {"a@x", "b@x"}, n \in {Sa, Sab, Spad}, ph \in {Sa, Sab, Spad},
        ad \in {S0, Sab, Spad}, mf \in BOOLEAN :
        CreateBooking(BookingRequest(CustomerInput(e, n, ph, ad),
                                     "sl1", 0, 0, 0, "s1"), mf)

SpecCustomer == Init /\ [][NextCustomer]_vars

(***************************************************************************)
(* Concurrent processRefund requests on one order: each request reads the  *)
(* order and checks it, then saves                                         *)
(***************************************************************************)
InitRefund ==
  /\ products = InitProducts
  /\ customers = <<>>
  /\ orders = <<>>
  /\ bookings = <<>>
  /\ resp = NoResp
  /\ pc = [p \in Procs |-> "idle"]
  /\ txn = <<>>
  /\ locals = [p \in Procs |-> [o |-> 0, amount |-> 0, read |-> NoDoc, code |-> 0]]

\* order.save() of a loaded document sends the changes made to it: $set of
\* the scalar paths whose value differs from the one read, and for an array
\* that was pushed to either $push of the new elements or, when the array
\* itself counts as modified, $set of the whole array (`whole`)
SaveDelta(stored, read, doc, whole) ==
  [stored EXCEPT
     !.status = IF doc.status # read.status THEN doc.status ELSE @,
     !.payment.status = IF doc.payment.status # read.payment.status
                          THEN doc.payment.status ELSE @,
     !.payment.refundedAmount =
        IF doc.payment.refundedAmount # read.payment.refundedAmount
          THEN doc.payment.refundedAmount ELSE @,
     !.payment.refunds =
        IF whole THEN doc.payment.refunds
        ELSE @ \o SubSeq(doc.payment.refunds, Len(read.payment.refunds) + 1,
                         Len(doc.payment.refunds)),
     !.timeline =
        IF whole THEN doc.timeline
        ELSE @ \o SubSeq(doc.timeline, Len(read.timeline) + 1, Len(doc.timeline))]

\* processRefund up to the end of its guards: Order.findOne and the checks
RefundRead(p, o, amount) ==
  /\ pc[p] = "idle"
  /\ o \in 1..Len(orders)
  /\ IF RefundRejection(orders[o], amount) # "ok"
       THEN /\ pc' = [pc EXCEPT ![p] = "done"]
            /\ locals' = [locals EXCEPT ![p].o = o, ![p].amount = amount,
                                        ![p].code = 400]
       ELSE /\ pc' = [pc EXCEPT ![p] = "save"]
            /\ locals' = [locals EXCEPT ![p].o = o, ![p].amount = amount,
                                        ![p].read = orders[o]]
  /\ UNCHANGED <<dbvars, resp, txn>>

\* processRefund from the state update to order.save() and the response
RefundSave(p, whole) ==
  /\ pc[p] = "save"
  /\ \E read \in {locals[p].read} :
       orders' = [orders EXCEPT ![locals[p].o] =
                    SaveDelta(@, read,
                              PreSave(read, ApplyRefund(read, locals[p].amount)),
                              whole)]
  /\ pc' = [pc EXCEPT ![p] = "done"]
  /\ locals' = [locals EXCEPT ![p].code = 200]
  /\ UNCHANGED <<products, customers, bookings, resp, txn>>

\* one order is created, paid and shipped; then the refunds arrive
NextRefund ==
  \/ \E outcome \in TxnOutcomes :
        CreateLifeOrder(OrderRequest(BaseCustomer, <<ItemV1>>, 1, 0, 0, 0,
                                     NoFields, "s1"), outcome, FALSE)
  \/ \E o \in 1..Len(orders) : UpdatePaymentStatus(o, "completed")
  \/ \E o \in 1..Len(orders), st \in FulfillmentTypes : UpdateOrderStatus(o, st, FALSE)
  \/ \E p \in Procs, o \in 1..Len(orders), am \in 1..3 : RefundRead(p, o, am)
  \/ \E p \in Procs, whole \in BOOLEAN : RefundSave(p, whole)

SpecRefund == InitRefund /\ [][NextRefund]_vars

(***************************************************************************)
(* Order numbers: the pre-save hook of a new order counts the orders of    *)
(* the store and the insert meets the unique index on orderNumber          *)
(***************************************************************************)
\* the ObjectIds of the stores, as characters: two stores whose ids end in
\* the same 3 characters
StoreObjectId == [s1 |-> <<"1", "a", "b", "c">>, s2 |-> <<"2", "a", "b", "c">>]

\* `${storePrefix}${year}${month}${count + 1}` for requests of one month:
\* the prefix and the sequence number
OrderNumber(ords, store) ==
  <<SubSeq(StoreObjectId[store], Len(StoreObjectId[store]) - 2,
           Len(StoreObjectId[store])),
    Cardinality({o \in 1..Len(ords) :
                   /\ ords[o].businessId = Stores[store].owner
                   /\ ords[o].storeId = store}) + 1>>

InitNumber ==
  /\ products = InitProducts
  /\ customers = <<>>
  /\ orders = <<>>
  /\ bookings = <<>>
  /\ resp = NoResp
  /\ pc = [p \in Procs |-> "idle"]
  /\ txn = <<>>
  /\ locals = [p \in Procs |-> [store |-> NoStore, number |-> <<>>, code |-> 0]]

\* order.save() of a new order, first half: the pre-save hook sets
\* orderNumber from countDocuments
CountOrders(p, store) ==
  /\ pc[p] = "idle"
  /\ Len(orders) <= MaxOrders
  /\ pc' = [pc EXCEPT ![p] = "insert"]
  /\ locals' = [locals EXCEPT ![p] = [store |-> store,
                                      number |-> OrderNumber(orders, store),
                                      code |-> 0]]
  /\ UNCHANGED <<dbvars, resp, txn>>

\* order.save() of a new order, second half: the insert; a duplicate
\* orderNumber is refused by the unique index (11000) and the request fails
InsertOrder(p) ==
  /\ pc[p] = "insert"
  /\ pc' = [pc EXCEPT ![p] = "idle"]
  /\ IF \E o \in 1..Len(orders) : orders[o].orderNumber = locals[p].number
       THEN /\ locals' = [locals EXCEPT ![p].code = 500]
            /\ UNCHANGED orders
       ELSE /\ locals' = [locals EXCEPT ![p].code = 201]
            /\ orders' = Append(orders,
                 [businessId |-> Stores[locals[p].store].owner,
                  storeId |-> locals[p].store,
                  orderNumber |-> locals[p].number,
                  status |-> "pending"])
  /\ UNCHANGED <<products, customers, bookings, resp, txn>>

NextNumber ==
  \/ \E p \in Procs, store \in DOMAIN Stores : CountOrders(p, store)
  \/ \E p \in Procs : InsertOrder(p)

SpecNumber == InitNumber /\ [][NextNumber]_vars

(***************************************************************************)
(* Public invoice access: a caller without credentials who knows the ids   *)
(* of the orders; `locals.known` is the set of tokens the caller has been  *)
(* sent, "guess" a token the caller makes up                               *)
(***************************************************************************)
\* orders as the pre-save hook leaves them (a random invoiceToken), or
\* stored without a token
InitInvoice ==
  /\ products = InitProducts
  /\ customers = <<>>
  /\ \E n \in 1..(MaxOrders + 1) :
       orders \in [1..n -> {[invoiceToken |-> t, status |-> "pending"] :
                              t \in {"", "t1", "t2"}}]
  /\ bookings = <<>>
  /\ resp = NoResp
  /\ pc = <<>>
  /\ txn = <<>>
  /\ locals = [known |-> {}]

\* GET /:orderId/summary, no authentication: the answer carries invoiceUrl,
\* built from the order's id and invoiceToken
GetOrderSummary(orderId) ==
  /\ IF orderId \notin 1..Len(orders)
       THEN /\ resp' = [op |-> "getOrderSummary", code |-> 404, order |-> orderId,
                        invoiceUrl |-> <<>>]
            /\ UNCHANGED locals
       ELSE /\ resp' = [op |-> "getOrderSummary", code |-> 200, order |-> orderId,
                        invoiceUrl |-> IF orders[orderId].invoiceToken # ""
                                         THEN <<orderId, orders[orderId].invoiceToken>>
                                         ELSE <<>>]
            /\ locals' = [locals EXCEPT !.known =
                            IF orders[orderId].invoiceToken # ""
                              THEN @ \cup {orders[orderId].invoiceToken} ELSE @]
  /\ UNCHANGED <<dbvars, pc, txn>>

\* GET /:orderId/invoice/:token, no authentication
GetPublicInvoice(orderId, token) ==
  /\ resp' = [op |-> "getPublicInvoice",
              code |-> IF \/ orderId \notin 1..Len(orders)
                          \/ orders[orderId].invoiceToken = ""
                          \/ orders[orderId].invoiceToken # token
                         THEN 404 ELSE 200,
              order |-> orderId, invoiceUrl |-> <<>>]
  /\ UNCHANGED <<dbvars, racevars>>

NextInvoice ==
  \/ \E orderId \in 1..(MaxOrders + 2) : GetOrderSummary(orderId)
  \/ \E orderId \in 1..(MaxOrders + 2), token \in locals.known \cup {"guess", ""} :
        GetPublicInvoice(orderId, token)

SpecInvoice == InitInvoice /\ [][NextInvoice]_vars

(***************************************************************************)
(* Properties                                                              *)
(***************************************************************************)
OrderIds == 1..Len(orders)

LineTotal(order) ==
  SumSeq([i \in 1..Len(order.items) |-> order.items[i].totalPrice])

\* C4: every persisted order has total = subtotal + tax + shipping - discount,
\* subtotal = the sum of its line totals, and every line total =
\* unit price * quantity, after creation and after every later operation.
C4_PricingReconciles ==
  \A o \in OrderIds :
    LET p == orders[o].pricing IN
    /\ p.total = p.subtotal + p.tax + p.shipping - p.discount
    /\ p.subtotal = LineTotal(orders[o])
    /\ \A i \in 1..Len(orders[o].items) :
         orders[o].items[i].totalPrice
           = orders[o].items[i].unitPrice * orders[o].items[i].quantity

\* an order of two lines with shipping and a discount that went through a
\* status change and a refund
C4_Witness ==
  \E o \in OrderIds :
    /\ Len(orders[o].items) = 2
    /\ orders[o].pricing.discount > 0 /\ orders[o].pricing.shipping > 0
    /\ orders[o].payment.refunds # <<>>
    /\ orders[o].status = "refunded"

\* C5: the client-submitted subtotal and total never reach the record: in
\* every reachable state, on either path, a request and the same request
\* with any other client subtotal/total end the same way and persist the
\* same pricing block and payment amount.
SameOutcome(a, b) ==
  /\ a.err = b.err
  /\ a.err = "ok" =>
       LET x == a.db.orders[Len(a.db.orders)]
           y == b.db.orders[Len(b.db.orders)]
       IN x.pricing = y.pricing /\ x.payment.amount = y.payment.amount
          /\ x.items = y.items

WithClientTotals(r, ct) == [r EXCEPT !.subtotal = ct[1], !.total = ct[2]]

PricedRequests ==
  { OrderRequest(BaseCustomer, <<ItemV1>>, fee, disc, 0, 0, NoFields, "s1") :
      fee \in {0, 1}, disc \in {0, 2} }

C5_ClientTotalsIgnored ==
  \A r \in PricedRequests, tx \in BOOLEAN :
    LET db == Db(products, customers, orders)
        plain == OrderOperation(db, r, tx)
    IN \A ct \in ClientTotals \ {<<0, 0>>} :
         SameOutcome(plain, OrderOperation(db, WithClientTotals(r, ct), tx))

\* an order was persisted from a request whose client figures were off by
\* more than 1, and its record carries the computed figures
C5_Witness ==
  /\ resp.op = "createOrder" /\ resp.code = 201 /\ resp.warned
  /\ orders[Len(orders)].pricing.total < 50

\* C2: the stock of every variant stays >= 0, and no order is persisted for
\* a line whose quantity exceeds the stock of the variant it resolves to
\* (such a request is rejected with 400 and persists nothing).
C2_NoLineBeyondStock ==
  /\ \A p \in DOMAIN products : \A v \in DOMAIN products[p].variants :
       products[p].variants[v].inventory >= 0
  /\ \A o \in OrderIds : \A i \in 1..Len(orders[o].items) :
       LET it == orders[o].items[i] IN
       it.variant # NoVariant =>
         it.quantity <= InitProducts[it.product].variants[it.variant].inventory

\* C3: a createOrder that answers with an error leaves products, customers
\* and orders as they were.
C3_ErrorLeavesStoreUnchanged ==
  [][(resp'.op = "createOrder" /\ resp'.code # 201) => UNCHANGED dbvars]_vars

\* C6: the unit price of every persisted line is the catalog price: the
\* resolved variant's price, otherwise the product's price.
CatalogPrice(product, variant) ==
  JsOr(IF variant = NoVariant THEN 0 ELSE product.variants[variant].price,
       product.basePrice)

C6_UnitPriceFromCatalog ==
  \A o \in OrderIds : \A i \in 1..Len(orders[o].items) :
    LET it == orders[o].items[i] IN
    /\ it.unitPrice = CatalogPrice(InitProducts[it.product], it.variant)
    /\ it.totalPrice = CatalogPrice(InitProducts[it.product], it.variant) * it.quantity

\* C8: every order has refundedAmount = the sum of its refund records and
\* refundedAmount <= payment.amount.
C8_RefundBookkeeping ==
  \A o \in OrderIds :
    /\ orders[o].payment.refundedAmount = SumSeq(orders[o].payment.refunds)
    /\ orders[o].payment.refundedAmount <= orders[o].payment.amount

\* C9: processRefund changes the order only when the remaining balance is
\* > 0, the order is delivered, shipped or partially_refunded, the payment
\* is completed or partially_refunded and 0 < amount <= balance; otherwise
\* it answers 400 and the order is unchanged.
RefundAllowed(order, amount) ==
  LET balance == Max(order.payment.amount - order.payment.refundedAmount, 0) IN
  /\ balance > 0
  /\ order.status \in {"delivered", "shipped", "partially_refunded"}
  /\ order.payment.status \in {"completed", "partially_refunded"}
  /\ 0 < amount /\ amount <= balance

C9_RefundGuards ==
  [][resp'.op = "processRefund" =>
     \A o \in OrderIds, am \in RefundAmounts, mf \in BOOLEAN :
       ProcessRefund(o, am, mf) =>
         /\ orders' # orders => RefundAllowed(orders[o], am)
         /\ ~RefundAllowed(orders[o], am) => orders' = orders /\ resp'.code = 400]_vars

\* a refund larger than the balance of a refundable order was rejected
C9_Witness ==
  /\ resp.op = "processRefund" /\ resp.code = 400
  /\ resp.err = "amount_exceeds_balance"
  /\ \E o \in OrderIds : canBeRefunded(orders[o])

\* C10: a successful processRefund(amount) appends one refund record of that
\* amount, adds amount to refundedAmount and sets both statuses to refunded
\* if the new refundedAmount >= payment.amount, else to partially_refunded;
\* so right after a successful refund the order is refunded exactly when
\* its refund records sum to at least payment.amount.
C10_RefundEffect ==
  [][(resp'.op = "processRefund" /\ resp'.code = 200) =>
     \A o \in OrderIds, am \in RefundAmounts :
       ProcessRefund(o, am, FALSE) =>
         LET old == orders[o].payment
             new == orders'[o].payment
             st == IF new.refundedAmount >= new.amount
                     THEN "refunded" ELSE "partially_refunded"
         IN /\ new.refunds = Append(old.refunds, am)
            /\ new.refundedAmount = old.refundedAmount + am
            /\ new.status = st /\ orders'[o].status = st
            /\ orders'[o].status = "refunded"
                 <=> SumSeq(new.refunds) >= new.amount]_vars

\* the quantity of a variant an order carries
RECURSIVE VariantQuantity(_, _, _)
VariantQuantity(items, product, variant) ==
  IF items = <<>> THEN 0
  ELSE (IF Head(items).product = product /\ Head(items).variant = variant
          THEN Head(items).quantity ELSE 0)
       + VariantQuantity(Tail(items), product, variant)

Sold(product, variant) ==
  SumSeq([o \in 1..Len(orders) |-> VariantQuantity(orders[o].items, product, variant)])

\* C1: when the concurrent createOrder requests all run on the transactional
\* path, the total quantity of a variant in the orders that succeed is at
\* most the stock the variant had: no oversell.
C1_NoOversell ==
  (\A p \in Procs : locals[p].kind = "order" => locals[p].path \in {"none", "transaction"})
    => Sold("p1", "v1") <= InitProducts["p1"].variants["v1"].inventory

C11_CancelRestoresInventory ==
  [][(resp'.op = "cancelOrder" /\ resp'.code = 200) =>
     \A o \in OrderIds, ra \in {0, 1}, mf \in BOOLEAN :
       CancelOrder(o, ra, mf) =>
         \A p \in DOMAIN products : \A v \in DOMAIN products[p].variants :
           products'[p].variants[v].inventory
             = products[p].variants[v].inventory
                 + VariantQuantity(orders[o].items, p, v)]_vars

C13_TimelineEndsInStatus ==
  /\ \A o \in OrderIds :
       /\ Len(orders[o].timeline) >= 1
       /\ orders[o].timeline[Len(orders[o].timeline)] = orders[o].status
  /\ \A b \in 1..Len(bookings) :
       /\ Len(bookings[b].timeline) >= 1
       /\ bookings[b].timeline[Len(bookings[b].timeline)] = bookings[b].status

\* an order that went through status changes and a partial refund
C13_Witness ==
  \E o \in OrderIds :
    /\ orders[o].status = "partially_refunded"
    /\ Len(orders[o].timeline) >= 4
    /\ orders[o].payment.refunds # <<>>

\* C14: every updateStatus call and every successful processRefund call
\* makes the order's timeline exactly one entry longer, keeping the
\* entries it had.
C14_TimelineGrowsByOne ==
  [][(resp'.code = 200 /\ resp'.op \in {"updateOrderStatus", "processRefund"}) =>
       \A o \in OrderIds :
         orders'[o] # orders[o] =>
           /\ Len(orders'[o].timeline) = Len(orders[o].timeline) + 1
           /\ SubSeq(orders'[o].timeline, 1, Len(orders[o].timeline))
                = orders[o].timeline]_vars

\* C15: right after a successful createOrder the order is pending, its
\* payment is pending with refundedAmount 0 and amount = pricing.total, and
\* its timeline is the one entry pending, whatever the request's payment
\* object carried.
C15_FreshOrder ==
  [][(resp'.op = "createOrder" /\ resp'.code = 201) =>
       LET order == orders'[Len(orders')] IN
       /\ order.status = "pending"
       /\ order.payment.status = "pending"
       /\ order.payment.refundedAmount = 0
       /\ order.payment.amount = order.pricing.total
       /\ order.timeline = <<"pending">>]_vars

C17_PositivePrices ==
  /\ \A o \in OrderIds :
       /\ orders[o].pricing.total > 0
       /\ \A i \in 1..Len(orders[o].items) : orders[o].items[i].unitPrice > 0
  /\ (resp.op = "createOrder" /\ resp.err \in {"invalid_unit_price", "invalid_total"})
       => resp.code = 400

\* a request whose discount eats the whole total was refused and no order
\* was persisted
C17_Witness ==
  /\ resp.op = "createOrder" /\ resp.err = "invalid_total" /\ resp.code = 400
  /\ orders = <<>>

\* C18: every booking createBooking persists is pending, has tax 0,
\* total = subtotal - discount and payment.amount = total, whatever
\* subtotal and total the request carried.
C18_BookingPricing ==
  [][(resp'.op = "createBooking" /\ resp'.code = 201) =>
       LET booking == bookings'[Len(bookings')] IN
       /\ booking.status = "pending"
       /\ booking.pricing.tax = 0
       /\ booking.pricing.total = booking.pricing.subtotal - booking.pricing.discount
       /\ booking.payment.amount = booking.pricing.total]_vars

\* C19: when no storage error occurs and the transactional operation ends
\* in a validation or business-rule error, createOrder answers without
\* running the fallback algorithm.
C19_FallbackOnlyAfterStorageErrors ==
  [][resp'.op = "createOrder" =>
       \A r \in OrderRequests, mf \in BOOLEAN :
         (/\ CreateOrder(r, "commit", mf)
          /\ createOrderTransaction(Db(products, customers, orders), r).err # "ok")
           => resp'.path # "fallback"]_vars

\* C20: retryTransaction makes at most 3 attempts; a further attempt starts
\* only after an attempt failed with a transient error (code 251, 50, 112
\* or codeName TransientTransactionError); a non-transient failure or a
\* third failure ends it with that error; a committed attempt ends it with
\* that attempt's result; whenever an attempt ends, its transaction is
\* closed; and it terminates: every step inside it lowers a measure that is
\* bounded below (attempts left, then the steps left in the attempt).
InTransaction(p) == pc[p] \in {"txnBegin", "txnCustomer", "txnCommit"}

Transient(error) ==
  error.code \in {251, 50, 112} \/ error.codeName = "TransientTransactionError"

StepsLeft(at, attempt) ==
  (3 - attempt) * 3
    + (CASE at = "txnBegin" -> 3 [] at = "txnCustomer" -> 2
         [] at = "txnCommit" -> 1 [] OTHER -> 0)

RetryStep(p) ==
  /\ locals'[p].attempt \in 1..3
  /\ (InTransaction(p) /\ <<pc'[p], locals'[p], txn'[p]>> # <<pc[p], locals[p], txn[p]>>) =>
       /\ StepsLeft(pc'[p], locals'[p].attempt) < StepsLeft(pc[p], locals[p].attempt)
       /\ StepsLeft(pc'[p], locals'[p].attempt) >= 0
  /\ ~InTransaction(p) => locals'[p].attempt = locals[p].attempt
  /\ locals'[p].attempt # locals[p].attempt =>
       /\ locals'[p].attempt = locals[p].attempt + 1
       /\ Transient(locals'[p].lastError)
       /\ pc'[p] = "txnBegin" /\ ~txn'[p].open
  /\ (InTransaction(p) /\ pc'[p] = "txnBegin" /\ locals'[p] # locals[p]) =>
       locals'[p].attempt = locals[p].attempt + 1
  /\ (InTransaction(p) /\ pc'[p] = "fbFind") =>
       /\ ~Transient(locals'[p].lastError) \/ locals[p].attempt = 3
       /\ locals'[p].attempt = locals[p].attempt
       /\ ~txn'[p].open
  /\ (InTransaction(p) /\ pc'[p] = "done") =>
       /\ pc[p] = "txnCommit" /\ txn[p].open /\ ~txn'[p].open
       /\ locals'[p].path = "transaction" /\ locals'[p].code = 201
       /\ locals'[p].lastError = locals[p].lastError

C20_RetryTransaction == [][\A p \in Procs : RetryStep(p)]_vars

\* a request went through three attempts, the third failed too, and the
\* request is through
C20_Witness ==
  \E p \in Procs :
    /\ locals[p].attempt = 3 /\ Transient(locals[p].lastError)
    /\ locals[p].path = "fallback" /\ pc[p] = "done"

\* C21: a confirmation is dispatched only for an order that is committed,
\* and at most one per createOrder request: a request that has dispatched a
\* confirmation is through with 201 and its order is in the store.
C21_ConfirmationAfterCommit ==
  \A p \in Procs :
    /\ locals[p].sent <= 1
    /\ locals[p].sent >= 1 =>
         /\ pc[p] = "done" /\ locals[p].code = 201
         /\ locals[p].ref \in 1..Len(orders)

\* C22: updatePaymentStatus(p) sets payment.status to p; the order's
\* status becomes confirmed if p is completed and the status was pending,
\* and is left as it was in every other case.
C22_PaymentStatusEffect ==
  [][resp'.op = "updatePaymentStatus" =>
       \A o \in OrderIds, ps \in PaymentStatusInputs :
         UpdatePaymentStatus(o, ps) =>
           /\ orders'[o].payment.status = ps
           /\ orders'[o].status =
                IF ps = "completed" /\ orders[o].status = "pending"
                  THEN "confirmed" ELSE orders[o].status]_vars

\* a completed payment confirmed a pending order
C22_Witness ==
  /\ resp.op = "updatePaymentStatus"
  /\ \E o \in OrderIds :
       /\ orders[o].payment.status = "completed"
       /\ orders[o].timeline = <<"pending", "confirmed", "confirmed">>

\* C23: a resolver whose customer insert failed with a duplicate key gives
\* up with the customer-resolution error only if no customer with the email
\* is found at all, neither under the tenant nor by the email alone, among
\* the documents its lookups read (the snapshot of its transaction, or the
\* store outside a transaction).
C23_DuplicateKeyRecovery ==
  [][\A p \in Procs :
       /\ ( /\ pc[p] = "txnCustomer"
            /\ locals'[p].saveError = 11000
            /\ locals'[p].lastError = AppError )
          => FindCustomerByEmail(txn[p].customers, Email(p)) = 0
       /\ ( /\ pc[p] = "fbRefind"
            /\ pc'[p] = "done"
            /\ locals'[p].err = "customer_duplicate" )
          => FindCustomerByEmail(customers, Email(p)) = 0]_vars

\* C24: over order and booking creations the stored length of a customer's
\* name, phone and address never decreases.
C24_StoredLengthNeverDecreases ==
  [][\A i \in 1..Len(customers) :
       /\ Len(customers'[i].name) >= Len(customers[i].name)
       /\ Len(customers'[i].phone) >= Len(customers[i].phone)
       /\ Len(customers'[i].address) >= Len(customers[i].address)]_vars

\* C25: whatever the interleaving of concurrent processRefund requests on
\* an order, refundedAmount equals the sum of the recorded refunds and the
\* recorded refunds do not exceed the amount paid.
C25_ConcurrentRefunds ==
  \A o \in OrderIds :
    /\ orders[o].payment.refundedAmount = SumSeq(orders[o].payment.refunds)
    /\ SumSeq(orders[o].payment.refunds) <= orders[o].payment.amount

\* C26: inventory is conserved: for every variant the current stock plus
\* the quantity of the variant in the orders that are not cancelled equals
\* the initial stock.
C26_InventoryConserved ==
  \A p \in DOMAIN products : \A v \in DOMAIN products[p].variants :
    products[p].variants[v].inventory
      + SumSeq([o \in 1..Len(orders) |->
                  IF orders[o].status = "cancelled" THEN 0
                  ELSE VariantQuantity(orders[o].items, p, v)])
      = InitProducts[p].variants[v].inventory

C28_OrderNumberFresh ==
  \A p \in Procs : locals[p].code # 500

\* C29: refund bookkeeping agrees with the payment status: a payment in
\* status refunded has refundedAmount >= amount and a recorded refund, a
\* payment in status partially_refunded has 0 < refundedAmount < amount.
C29_RefundStatusBacked ==
  \A o \in OrderIds :
    /\ orders[o].payment.status = "refunded" =>
         /\ orders[o].payment.refundedAmount >= orders[o].payment.amount
         /\ Len(orders[o].payment.refunds) >= 1
    /\ orders[o].payment.status = "partially_refunded" =>
         /\ 0 < orders[o].payment.refundedAmount
         /\ orders[o].payment.refundedAmount < orders[o].payment.amount

\* C30: a public caller who knows the ids of the orders but was not given
\* a token obtains no invoice and no token: getPublicInvoice does not
\* answer 200 to it, and no answer it receives carries an invoice token.
C30_NoInvoiceWithoutToken ==
  /\ ~(resp.op = "getPublicInvoice" /\ resp.code = 200)
  /\ locals.known = {}

====
